---- MODULE Spec2Model ----
(***************************************************************************)
(* A model of the Janggi rules engine of src/JanggiEngine.py: the 10x9     *)
(* board, the side to move, the move log, the game status, the per-piece    *)
(* pseudo-move generators, the legality filter and make_move / undo_move.   *)
(*                                                                          *)
(* Python lists of Move objects are modelled as sets of Move records: a     *)
(* Move is determined by its two coordinates and the board it was built     *)
(* from, the engine only ever tests a list for emptiness or searches it for *)
(* a coordinate match, and Move defines no __eq__ (list.remove removes the  *)
(* object itself).  Duplicate entries (the RED chariot's palace diagonals   *)
(* are appended once per orthogonal direction) therefore collapse.          *)
(*                                                                          *)
(* A method that mutates the object is an operator that returns a record of *)
(* its return value and of every field it may have written.                 *)
(***************************************************************************)
EXTENDS Integers, Sequences, FiniteSets, TLC

VARIABLES
    board,        \* self._board: [0..9 -> [0..8 -> piece string]]
    player_turn,  \* self._player_turn: "RED" | "BLUE"
    game_state,   \* self._game_state: "UNFINISHED" | "RED_WON" | "BLUE_WON"
    moveLog,      \* self._moveLog: sequence of Move records
    checkmate,    \* self._checkmate
    call,         \* the last call made on the object: [op, start, end, same, listed]
    prev,         \* the object's fields as that call found them
    ret,          \* what that call returned: "True" | "False" | "None" | "list"
    line,         \* the game played: "Script" or "PieceScript"
    pos,          \* calls of that game made, while the calls made are a prefix of it
    opsLeft       \* free calls that may still be made, off Script

vars == <<board, player_turn, game_state, moveLog, checkmate, call, prev, ret, line, pos, opsLeft>>

-----------------------------------------------------------------------------
(* Pieces are the two-character strings of the source: colour, then kind.   *)

RedPieces == {"RP", "RR", "RH", "RC", "RE", "RG", "RK"}
BluePieces == {"BP", "BR", "BH", "BC", "BE", "BG", "BK"}

\* piece[0]: "R", "B" or "-"
Colour(piece) ==
    IF piece \in RedPieces THEN "R" ELSE IF piece \in BluePieces THEN "B" ELSE "-"

\* piece[1]
Kind(piece) ==
    CASE piece \in {"RP", "BP"} -> "P"
      [] piece \in {"RR", "BR"} -> "R"
      [] piece \in {"RH", "BH"} -> "H"
      [] piece \in {"RC", "BC"} -> "C"
      [] piece \in {"RE", "BE"} -> "E"
      [] piece \in {"RG", "BG"} -> "G"
      [] piece \in {"RK", "BK"} -> "K"
      [] OTHER -> "-"

Squares == (0..9) \X (0..8)

\* 0 <= r <= 9 and 0 <= c <= 8
OnBoard(r, c) == 0 <= r /\ r <= 9 /\ 0 <= c /\ c <= 8

\* 7 <= r <= 9 and 3 <= c <= 5
InBluePalace(r, c) == 7 <= r /\ r <= 9 /\ 3 <= c /\ c <= 5

\* 0 <= r <= 2 and 3 <= c <= 5
InRedPalace(r, c) == 0 <= r /\ r <= 2 /\ 3 <= c /\ c <= 5

InitialBoard ==
    LET rows == << <<"RR", "RE", "RH", "RG", "--", "RG", "RE", "RH", "RR">>,
                   <<"--", "--", "--", "--", "RK", "--", "--", "--", "--">>,
                   <<"--", "RC", "--", "--", "--", "--", "--", "RC", "--">>,
                   <<"RP", "--", "RP", "--", "RP", "--", "RP", "--", "RP">>,
                   <<"--", "--", "--", "--", "--", "--", "--", "--", "--">>,
                   <<"--", "--", "--", "--", "--", "--", "--", "--", "--">>,
                   <<"BP", "--", "BP", "--", "BP", "--", "BP", "--", "BP">>,
                   <<"--", "BC", "--", "--", "--", "--", "--", "BC", "--">>,
                   <<"--", "--", "--", "--", "BK", "--", "--", "--", "--">>,
                   <<"BR", "BE", "BH", "BG", "--", "BG", "BE", "BH", "BR">> >>
    IN [r \in 0..9 |-> [c \in 0..8 |-> rows[r + 1][c + 1]]]

\* class Move
Move(startSq, endSq, b) ==
    [startRow |-> startSq[1], startCol |-> startSq[2],
     endRow |-> endSq[1], endCol |-> endSq[2],
     pieceMoved |-> b[startSq[1]][startSq[2]],
     pieceCaptured |-> b[endSq[1]][endSq[2]]]

\* The colour letter of the side to move, and of its opponent.
Own(turn) == IF turn = "RED" THEN "R" ELSE "B"
Foe(turn) == IF turn = "RED" THEN "B" ELSE "R"

directions == << <<1, 0>>, <<-1, 0>>, <<0, -1>>, <<0, 1>> >>
diagnolCor == << <<-1, -1>>, <<1, -1>>, <<-1, 1>>, <<1, 1>> >>
check_directions == << <<1, -1>>, <<-1, -1>>, <<1, -1>>, <<-1, 1>> >>
right_directions == << <<1, 1>>, <<-1, 1>>, <<-1, -1>>, <<1, 1>> >>

RedDiagonalPos == {<<0, 3>>, <<2, 3>>, <<0, 5>>, <<2, 5>>, <<1, 4>>}
BlueDiagonalPos == {<<9, 3>>, <<7, 3>>, <<9, 5>>, <<7, 5>>, <<8, 4>>}

\* "if x == '--': append" followed by "elif/if x[0] == foe: append"
EmptyOrFoe(piece, turn) == piece = "--" \/ Colour(piece) = Foe(turn)

-----------------------------------------------------------------------------
(* The per-piece generators.  Each returns the Moves the source appends.    *)

\* get_pawn_moves with a step back added to the three orthogonal steps.
get_pawn_moves_back(b, turn, row, col) ==
    LET fwd == IF turn = "RED" THEN row + 1 ELSE row - 1
        back == IF turn = "RED" THEN row - 1 ELSE row + 1
        steps == {<<fwd, col>>, <<back, col>>, <<row, col + 1>>, <<row, col - 1>>}
    IN {Move(<<row, col>>, e, b) :
          e \in {t \in steps : OnBoard(t[1], t[2]) /\ EmptyOrFoe(b[t[1]][t[2]], turn)}}

get_pawn_moves(b, turn, row, col) ==
    LET fwd == IF turn = "RED" THEN row + 1 ELSE row - 1
        diagonalPos == IF turn = "RED" THEN RedDiagonalPos ELSE BlueDiagonalPos
        \* RED tests the landing square against rows 7..9, BLUE against rows 0..2
        InTarget(r, c) == IF turn = "RED" THEN InBluePalace(r, c) ELSE InRedPalace(r, c)
        forward == IF 0 <= fwd /\ fwd <= 9 /\ EmptyOrFoe(b[fwd][col], turn)
                   THEN {<<fwd, col>>} ELSE {}
        right == IF 0 <= col + 1 /\ col + 1 <= 8 /\ EmptyOrFoe(b[row][col + 1], turn)
                 THEN {<<row, col + 1>>} ELSE {}
        left == IF 0 <= col - 1 /\ col - 1 <= 8 /\ EmptyOrFoe(b[row][col - 1], turn)
                THEN {<<row, col - 1>>} ELSE {}
        diag == IF <<row, col>> \in diagonalPos
                THEN {<<row + diagnolCor[k][1], col + diagnolCor[k][2]>> : k \in
                        {j \in 1..4 :
                            /\ InTarget(row + diagnolCor[j][1], col + diagnolCor[j][2])
                            /\ EmptyOrFoe(b[row + diagnolCor[j][1]][col + diagnolCor[j][2]], turn)}}
                ELSE {}
    IN {Move(<<row, col>>, e, b) : e \in forward \cup right \cup left \cup diag}

\* The inner loop "for i in range(1, 10)" of the chariot's slide in direction d,
\* from step i on, with the loop variable mark.
RECURSIVE rook_scan(_, _, _, _, _, _, _)
rook_scan(b, turn, row, col, d, i, mark) ==
    IF i > 9 THEN {}
    ELSE LET endRow == row + d[1] * i
             endCol == col + d[2] * i
         IN IF OnBoard(endRow, endCol)
            THEN LET endPiece == b[endRow][endCol]
                 IN IF mark = 0
                    THEN IF Colour(endPiece) = Own(turn)
                         THEN rook_scan(b, turn, row, col, d, i + 1, 1)
                         ELSE IF endPiece = "--"
                         THEN {<<endRow, endCol>>} \cup rook_scan(b, turn, row, col, d, i + 1, 0)
                         ELSE {<<endRow, endCol>>} \cup rook_scan(b, turn, row, col, d, i + 1, 1)
                    ELSE rook_scan(b, turn, row, col, d, i + 1, mark)
            ELSE rook_scan(b, turn, row, col, d, i + 1, mark)

get_rook_moves(b, turn, row, col) ==
    LET diagonalPos == BlueDiagonalPos \cup RedDiagonalPos
        slide == UNION {rook_scan(b, turn, row, col, directions[k], 1, 0) : k \in 1..4}
        diag == IF <<row, col>> \in diagonalPos
                THEN {<<row + diagnolCor[k][1], col + diagnolCor[k][2]>> : k \in
                        {j \in 1..4 :
                            LET dRow == row + diagnolCor[j][1]
                                dCol == col + diagnolCor[j][2]
                            IN /\ (InBluePalace(dRow, dCol) \/ InRedPalace(dRow, dCol))
                               /\ EmptyOrFoe(b[dRow][dCol], turn)}}
                ELSE {}
    IN {Move(<<row, col>>, e, b) : e \in slide \cup diag}

\* get_horse_moves without the test "endPiece[0] != '-'" of the first step.
get_horse_moves_noleg(b, turn, row, col) ==
    LET Leg(k, side) ==
            LET endRow == row + directions[k][1]
                endCol == col + directions[k][2]
                tRow == endRow + side[k][1]
                tCol == endCol + side[k][2]
            IN IF /\ OnBoard(endRow, endCol)
                  /\ OnBoard(tRow, tCol)
                  /\ Colour(b[tRow][tCol]) # Own(turn)
               THEN {<<tRow, tCol>>} ELSE {}
    IN {Move(<<row, col>>, e, b) :
          e \in UNION {Leg(k, check_directions) \cup Leg(k, right_directions) : k \in 1..4}}

get_horse_moves(b, turn, row, col) ==
    LET Leg(k, side) ==
            LET endRow == row + directions[k][1]
                endCol == col + directions[k][2]
                tRow == endRow + side[k][1]
                tCol == endCol + side[k][2]
            IN IF /\ OnBoard(endRow, endCol)
                  /\ Colour(b[endRow][endCol]) = "-"
                  /\ OnBoard(tRow, tCol)
                  /\ Colour(b[tRow][tCol]) # Own(turn)
               THEN {<<tRow, tCol>>} ELSE {}
    IN {Move(<<row, col>>, e, b) :
          e \in UNION {Leg(k, check_directions) \cup Leg(k, right_directions) : k \in 1..4}}

\* The inner loop "for i in range(1, 10)" of the cannon's jump in direction d.
RECURSIVE cannon_scan(_, _, _, _, _, _, _)
cannon_scan(b, turn, row, col, d, i, mark) ==
    IF i > 9 THEN {}
    ELSE LET endRow == row + d[1] * i
             endCol == col + d[2] * i
         IN IF OnBoard(endRow, endCol)
            THEN LET endPiece == b[endRow][endCol]
                 IN IF Colour(endPiece) # "-" /\ mark = 0
                    THEN cannon_scan(b, turn, row, col, d, i + 1,
                                     IF Kind(endPiece) = "C" THEN 3 ELSE 1)
                    ELSE IF endPiece = "--" /\ mark = 0
                    THEN cannon_scan(b, turn, row, col, d, i + 1, 0)
                    ELSE IF mark = 1 /\ endPiece = "--"
                    THEN {<<endRow, endCol>>} \cup cannon_scan(b, turn, row, col, d, i + 1, 1)
                    ELSE IF mark = 1 /\ Colour(endPiece) = Foe(turn)
                    THEN {<<endRow, endCol>>} \cup cannon_scan(b, turn, row, col, d, i + 1, 3)
                    ELSE IF mark = 1 /\ Colour(endPiece) = Own(turn)
                    THEN cannon_scan(b, turn, row, col, d, i + 1, 3)
                    ELSE cannon_scan(b, turn, row, col, d, i + 1, mark)
            ELSE cannon_scan(b, turn, row, col, d, i + 1, mark)

get_cannon_moves(b, turn, row, col) ==
    LET diagonalPos == BlueDiagonalPos \cup RedDiagonalPos
        InPalace(r, c) == InBluePalace(r, c) \/ InRedPalace(r, c)
        jump == UNION {cannon_scan(b, turn, row, col, directions[k], 1, 0) : k \in 1..4}
        diag == IF <<row, col>> \in diagonalPos
                THEN {<<row + diagnolCor[k][1] * 2, col + diagnolCor[k][2] * 2>> : k \in
                        {j \in 1..4 :
                            LET dRow == row + diagnolCor[j][1]
                                dCol == col + diagnolCor[j][2]
                                dRow2 == row + diagnolCor[j][1] * 2
                                dCol2 == col + diagnolCor[j][2] * 2
                            IN /\ InPalace(dRow, dCol)
                               /\ b[dRow][dCol] # "--"
                               /\ InPalace(dRow2, dCol2)
                               /\ Colour(b[dRow2][dCol2]) # Own(turn)}}
                ELSE {}
    IN {Move(<<row, col>>, e, b) : e \in jump \cup diag}

\* get_elephant_moves without the test "checkPiece != '--'" of the square
\* between the first step and the landing square.
get_elephant_moves_nomid(b, turn, row, col) ==
    LET Leg(k, side) ==
            LET endRow == row + directions[k][1]
                endCol == col + directions[k][2]
                mRow == endRow + side[k][1]
                mCol == endCol + side[k][2]
                tRow == endRow + side[k][1] * 2
                tCol == endCol + side[k][2] * 2
            IN IF /\ OnBoard(endRow, endCol)
                  /\ Colour(b[endRow][endCol]) = "-"
                  /\ OnBoard(mRow, mCol)
                  /\ OnBoard(tRow, tCol)
                  /\ Colour(b[tRow][tCol]) # Own(turn)
               THEN {<<tRow, tCol>>} ELSE {}
    IN {Move(<<row, col>>, e, b) :
          e \in UNION {Leg(k, check_directions) \cup Leg(k, right_directions) : k \in 1..4}}

get_elephant_moves(b, turn, row, col) ==
    LET Leg(k, side) ==
            LET endRow == row + directions[k][1]
                endCol == col + directions[k][2]
                mRow == endRow + side[k][1]
                mCol == endCol + side[k][2]
                tRow == endRow + side[k][1] * 2
                tCol == endCol + side[k][2] * 2
            IN IF /\ OnBoard(endRow, endCol)
                  /\ Colour(b[endRow][endCol]) = "-"
                  /\ OnBoard(mRow, mCol)
                  /\ b[mRow][mCol] = "--"
                  /\ OnBoard(tRow, tCol)
                  /\ Colour(b[tRow][tCol]) # Own(turn)
               THEN {<<tRow, tCol>>} ELSE {}
    IN {Move(<<row, col>>, e, b) :
          e \in UNION {Leg(k, check_directions) \cup Leg(k, right_directions) : k \in 1..4}}

\* palace_moves bounded by the board where the source has the palace.
palace_moves_open(b, turn, row, col) ==
    LET diagonalPos == IF turn = "RED" THEN RedDiagonalPos ELSE BlueDiagonalPos
        Step(v) ==
            {<<row + v[k][1], col + v[k][2]>> : k \in
                {j \in 1..4 : /\ OnBoard(row + v[j][1], col + v[j][2])
                              /\ EmptyOrFoe(b[row + v[j][1]][col + v[j][2]], turn)}}
        diag == IF <<row, col>> \in diagonalPos THEN Step(diagnolCor) ELSE {}
    IN {Move(<<row, col>>, e, b) : e \in Step(directions) \cup diag}

\* get_guards_moves and get_general_moves have the same body.
palace_moves(b, turn, row, col) ==
    LET diagonalPos == IF turn = "RED" THEN RedDiagonalPos ELSE BlueDiagonalPos
        InOwn(r, c) == IF turn = "RED" THEN InRedPalace(r, c) ELSE InBluePalace(r, c)
        Step(v) ==
            {<<row + v[k][1], col + v[k][2]>> : k \in
                {j \in 1..4 : /\ InOwn(row + v[j][1], col + v[j][2])
                              /\ EmptyOrFoe(b[row + v[j][1]][col + v[j][2]], turn)}}
        diag == IF <<row, col>> \in diagonalPos THEN Step(diagnolCor) ELSE {}
    IN {Move(<<row, col>>, e, b) : e \in Step(directions) \cup diag}

get_guards_moves(b, turn, row, col) == palace_moves(b, turn, row, col)

get_general_moves(b, turn, row, col) == palace_moves(b, turn, row, col)

-----------------------------------------------------------------------------
(* The engine.                                                              *)

set_player_turn(turn) == IF turn = "RED" THEN "BLUE" ELSE "RED"

\* The moves the piece on (r, c) contributes, by the dispatch on board[r][c][1].
piece_moves(b, turn, r, c) ==
    LET piece == Kind(b[r][c])
    IN CASE piece = "P" -> get_pawn_moves(b, turn, r, c)
         [] piece = "R" -> get_rook_moves(b, turn, r, c)
         [] piece = "H" -> get_horse_moves(b, turn, r, c)
         [] piece = "C" -> get_cannon_moves(b, turn, r, c)
         [] piece = "E" -> get_elephant_moves(b, turn, r, c)
         [] piece = "G" -> get_guards_moves(b, turn, r, c)
         [] piece = "K" -> get_general_moves(b, turn, r, c)
         [] OTHER -> {}

\* get_all_possible_moves without the test of the piece's colour against the
\* side to move.
get_all_possible_moves_any(b, turn) ==
    UNION {piece_moves(b, turn, sq[1], sq[2]) :
             sq \in {s \in Squares : Colour(b[s[1]][s[2]]) # "-"}}

get_all_possible_moves(b, turn) ==
    UNION {piece_moves(b, turn, sq[1], sq[2]) :
             sq \in {s \in Squares : Colour(b[s[1]][s[2]]) = Own(turn)}}

\* square_under_attack without its second set_player_turn(): the turn stays
\* flipped.
square_under_attack_noflip(b, turn, r, c) ==
    [ret |-> IF \E move \in get_all_possible_moves(b, set_player_turn(turn)) :
                    move.endRow = r /\ move.endCol = c
             THEN "True" ELSE "False",
     player_turn |-> set_player_turn(turn)]

\* Flips the turn, generates the opponent's moves, flips the turn back.
square_under_attack(b, turn, r, c) ==
    LET t1 == set_player_turn(turn)
        oppMoves == get_all_possible_moves(b, t1)
        t2 == set_player_turn(t1)
    IN [ret |-> IF \E move \in oppMoves : move.endRow = r /\ move.endCol = c
                THEN "True" ELSE "False",
        player_turn |-> t2]

\* The general the row-major scan of in_check finds first among the squares K.
first_general(K) ==
    CHOOSE s \in K : \A t \in K : s[1] < t[1] \/ (s[1] = t[1] /\ s[2] <= t[2])

\* in_check, K being the squares that hold the general of the side to move:
\* "None" when the scan finds none.
in_check_of(K, b, turn) ==
    IF K = {} THEN [ret |-> "None", player_turn |-> turn]
    ELSE square_under_attack(b, turn, first_general(K)[1], first_general(K)[2])

\* in_check also stores its answer in _player_red or _player_blue, fields that
\* nothing else reads; they are left out.
in_check(b, turn) ==
    in_check_of({s \in Squares : b[s[1]][s[2]] = (IF turn = "RED" THEN "RK" ELSE "BK")},
                b, turn)

\* test_move, given the list its call of get_all_possible_moves() returns.
test_move_in(moves_list, b, turn, start_cor, end_cor) ==
    IF start_cor = end_cor
    THEN [ret |-> "True", board |-> b, player_turn |-> set_player_turn(turn)]
    ELSE IF \E move \in moves_list :
              /\ move.startRow = start_cor[1] /\ move.startCol = start_cor[2]
              /\ move.endRow = end_cor[1] /\ move.endCol = end_cor[2]
    THEN LET move == CHOOSE m \in moves_list :
                        /\ m.startRow = start_cor[1] /\ m.startCol = start_cor[2]
                        /\ m.endRow = end_cor[1] /\ m.endCol = end_cor[2]
         IN [ret |-> "True",
             board |-> [b EXCEPT ![move.startRow][move.startCol] = "--",
                                 ![move.endRow][move.endCol] = move.pieceMoved],
             player_turn |-> set_player_turn(turn)]
    ELSE [ret |-> "False", board |-> b, player_turn |-> turn]

test_move(b, turn, start_cor, end_cor) ==
    test_move_in(get_all_possible_moves(b, turn), b, turn, start_cor, end_cor)

\* The end of a pass that puts the cells back but never removes the move.
valid_restore_keep(tm, ic, move) ==
    [remove |-> FALSE,
     board |-> [tm.board EXCEPT ![move.startRow][move.startCol] = move.pieceMoved,
                                ![move.endRow][move.endCol] = move.pieceCaptured],
     player_turn |-> ic.player_turn]

\* The end of one pass of the loop of get_valid_moves: tm is what test_move left,
\* ic what in_check() returned after the turn was flipped back.  The move is
\* removed when in_check() is True, and the two cells are put back.
valid_restore(tm, ic, move) ==
    [remove |-> ic.ret = "True",
     board |-> [tm.board EXCEPT ![move.startRow][move.startCol] = move.pieceMoved,
                                ![move.endRow][move.endCol] = move.pieceCaptured],
     player_turn |-> ic.player_turn]

\* One pass of the loop, from the object test_move left.
valid_check(tm, move) ==
    valid_restore(tm, in_check(tm.board, set_player_turn(tm.player_turn)), move)

\* One pass of the loop of get_valid_moves, for the candidate move; moves_list is
\* get_all_possible_moves() on the board and turn of this pass.
valid_step(b, turn, moves_list, move) ==
    valid_check(test_move_in(moves_list, b, turn, <<move.startRow, move.startCol>>,
                             <<move.endRow, move.endCol>>),
                move)

\* The loop of get_valid_moves over the candidates still to visit, carrying the
\* list, the board and the turn as the passes leave them.  get_all_possible_moves
\* is a function of the board and the turn: while a pass leaves both as it found
\* them, the list test_move computes is the one computed before.
RECURSIVE valid_loop(_, _, _, _, _)
valid_next(step, move, todo, kept, b, turn, moves_list) ==
    IF step.board = b /\ step.player_turn = turn
    THEN IF step.remove
         THEN valid_loop(todo \ {move}, kept \ {move}, b, turn, moves_list)
         ELSE valid_loop(todo \ {move}, kept, b, turn, moves_list)
    ELSE valid_loop(todo \ {move}, IF step.remove THEN kept \ {move} ELSE kept,
                    step.board, step.player_turn,
                    get_all_possible_moves(step.board, step.player_turn))

valid_pass(move, todo, kept, b, turn, moves_list) ==
    valid_next(valid_step(b, turn, moves_list, move), move, todo, kept, b, turn, moves_list)

valid_loop(todo, kept, b, turn, moves_list) ==
    IF todo = {} THEN [moves |-> kept, board |-> b, player_turn |-> turn]
    ELSE valid_pass(CHOOSE m \in todo : TRUE, todo, kept, b, turn, moves_list)

get_valid_moves_of(moves, b, turn) == valid_loop(moves, moves, b, turn, moves)

get_valid_moves(b, turn) == get_valid_moves_of(get_all_possible_moves(b, turn), b, turn)

\* undo_move without the pop of the history.
undo_move_keep(b, turn, log) ==
    IF Len(log) # 0
    THEN LET move == log[Len(log)]
         IN [board |-> [b EXCEPT ![move.startRow][move.startCol] = move.pieceMoved,
                                 ![move.endRow][move.endCol] = move.pieceCaptured],
             player_turn |-> set_player_turn(turn),
             moveLog |-> log]
    ELSE [board |-> b, player_turn |-> turn, moveLog |-> log]

\* undo_move with set_player_turn() outside the test of the history's length.
undo_move_flip(b, turn, log) ==
    IF Len(log) # 0
    THEN LET move == log[Len(log)]
         IN [board |-> [b EXCEPT ![move.startRow][move.startCol] = move.pieceMoved,
                                 ![move.endRow][move.endCol] = move.pieceCaptured],
             player_turn |-> set_player_turn(turn),
             moveLog |-> SubSeq(log, 1, Len(log) - 1)]
    ELSE [board |-> b, player_turn |-> set_player_turn(turn), moveLog |-> log]

undo_move(b, turn, log) ==
    IF Len(log) # 0
    THEN LET move == log[Len(log)]
         IN [board |-> [b EXCEPT ![move.startRow][move.startCol] = move.pieceMoved,
                                 ![move.endRow][move.endCol] = move.pieceCaptured],
             player_turn |-> set_player_turn(turn),
             moveLog |-> SubSeq(log, 1, Len(log) - 1)]
    ELSE [board |-> b, player_turn |-> turn, moveLog |-> log]

\* Lines 203-220 with the winner taken from the side that moved last instead of
\* the side to move: the mated side is credited.
apply_end_swapped(opp, ic, gs, log, cm, move) ==
    LET none == Cardinality(opp.moves) = 0
        cm1 == IF none THEN ic.ret = "True" ELSE FALSE
        t2 == IF none THEN ic.player_turn ELSE opp.player_turn
        gs1 == IF cm1 THEN (IF t2 = "RED" THEN "RED_WON" ELSE "BLUE_WON") ELSE gs
        t3 == IF cm1 THEN t2 ELSE set_player_turn(t2)
    IN [ret |-> "True", board |-> opp.board, player_turn |-> set_player_turn(t3),
        game_state |-> gs1, moveLog |-> Append(log, move), checkmate |-> cm1]

\* Lines 203-220 with the checkmate test reduced to len(opp_moves) == 0.
apply_end_no_check(opp, ic, gs, log, cm, move) ==
    LET cm1 == Cardinality(opp.moves) = 0
        t2 == opp.player_turn
        gs1 == IF cm1 THEN (IF t2 = "RED" THEN "BLUE_WON" ELSE "RED_WON") ELSE gs
        t3 == IF cm1 THEN t2 ELSE set_player_turn(t2)
    IN [ret |-> "True", board |-> opp.board, player_turn |-> set_player_turn(t3),
        game_state |-> gs1, moveLog |-> Append(log, move), checkmate |-> cm1]

\* Lines 203-220 of make_move: opp is what get_valid_moves() returned and left
\* behind for the opponent, ic what in_check() did when opp.moves is empty.
apply_end(opp, ic, gs, log, cm, move) ==
    LET none == Cardinality(opp.moves) = 0
        cm1 == IF none THEN ic.ret = "True" ELSE FALSE
        t2 == IF none THEN ic.player_turn ELSE opp.player_turn
        gs1 == IF cm1 THEN (IF t2 = "RED" THEN "BLUE_WON" ELSE "RED_WON") ELSE gs
        t3 == IF cm1 THEN t2 ELSE set_player_turn(t2)
    IN [ret |-> "True", board |-> opp.board, player_turn |-> set_player_turn(t3),
        game_state |-> gs1, moveLog |-> Append(log, move), checkmate |-> cm1]

apply_opp(opp, gs, log, cm, move) ==
    apply_end(opp, in_check(opp.board, opp.player_turn), gs, log, cm, move)

\* The tail of make_move without line 198: the origin keeps the piece.
apply_move_copy(b, turn, gs, log, cm, move) ==
    apply_opp(get_valid_moves([b EXCEPT ![move.endRow][move.endCol] = move.pieceMoved],
                              set_player_turn(turn)),
              gs, log, cm, move)

\* The tail of make_move once a matching move is found (lines 198-220).
apply_move(b, turn, gs, log, cm, move) ==
    apply_opp(get_valid_moves([b EXCEPT ![move.startRow][move.startCol] = "--",
                                        ![move.endRow][move.endCol] = move.pieceMoved],
                              set_player_turn(turn)),
              gs, log, cm, move)

\* make_move looking the move up in get_all_possible_moves() instead of the
\* filtered list.
make_move_from_loose(gv, gs, log, cm, xcor, ycor) ==
    LET same == [ret |-> "False", board |-> gv.board, player_turn |-> gv.player_turn,
                 game_state |-> gs, moveLog |-> log, checkmate |-> cm]
        Match(m) == /\ m.startRow = xcor[1] /\ m.startCol = xcor[2]
                    /\ m.endRow = ycor[1] /\ m.endCol = ycor[2]
    IN IF gs = "UNFINISHED"
       THEN IF xcor = ycor
            THEN [same EXCEPT !.ret = "True",
                              !.player_turn = set_player_turn(gv.player_turn)]
            ELSE IF \E m \in get_all_possible_moves(gv.board, gv.player_turn) : Match(m)
            THEN apply_move(gv.board, gv.player_turn, gs, log, cm,
                            CHOOSE m \in get_all_possible_moves(gv.board, gv.player_turn) :
                                Match(m))
            ELSE same
       ELSE same

\* make_move without the test of the game status.
make_move_from_always(gv, gs, log, cm, xcor, ycor) ==
    LET same == [ret |-> "False", board |-> gv.board, player_turn |-> gv.player_turn,
                 game_state |-> gs, moveLog |-> log, checkmate |-> cm]
        Match(m) == /\ m.startRow = xcor[1] /\ m.startCol = xcor[2]
                    /\ m.endRow = ycor[1] /\ m.endCol = ycor[2]
    IN IF xcor = ycor
       THEN [same EXCEPT !.ret = "True",
                         !.player_turn = set_player_turn(gv.player_turn)]
       ELSE IF \E m \in gv.moves : Match(m)
       THEN apply_move(gv.board, gv.player_turn, gs, log, cm,
                       CHOOSE m \in gv.moves : Match(m))
       ELSE same

\* make_move without the branch for xcor == ycor: a pass is looked up in the
\* list like any move.
make_move_from_strict(gv, gs, log, cm, xcor, ycor) ==
    LET same == [ret |-> "False", board |-> gv.board, player_turn |-> gv.player_turn,
                 game_state |-> gs, moveLog |-> log, checkmate |-> cm]
        Match(m) == /\ m.startRow = xcor[1] /\ m.startCol = xcor[2]
                    /\ m.endRow = ycor[1] /\ m.endCol = ycor[2]
    IN IF gs = "UNFINISHED"
       THEN IF \E m \in gv.moves : Match(m)
            THEN apply_move(gv.board, gv.player_turn, gs, log, cm,
                            CHOOSE m \in gv.moves : Match(m))
            ELSE same
       ELSE same

\* make_move after its first statement: gv is what get_valid_moves() returned
\* and left behind.
make_move_from(gv, gs, log, cm, xcor, ycor) ==
    LET same == [ret |-> "False", board |-> gv.board, player_turn |-> gv.player_turn,
                 game_state |-> gs, moveLog |-> log, checkmate |-> cm]
        Match(m) == /\ m.startRow = xcor[1] /\ m.startCol = xcor[2]
                    /\ m.endRow = ycor[1] /\ m.endCol = ycor[2]
    IN IF gs = "UNFINISHED"
       THEN IF xcor = ycor
            THEN [same EXCEPT !.ret = "True",
                              !.player_turn = set_player_turn(gv.player_turn)]
            ELSE IF \E m \in gv.moves : Match(m)
            THEN apply_move(gv.board, gv.player_turn, gs, log, cm,
                            CHOOSE m \in gv.moves : Match(m))
            ELSE same
       ELSE same

make_move(b, turn, gs, log, cm, xcor, ycor) ==
    make_move_from(get_valid_moves(b, turn), gs, log, cm, xcor, ycor)

-----------------------------------------------------------------------------
(* The state machine: one action per public operation of JanggiGame.        *)

NoSq == <<-1, -1>>

\* A call other than make_move.
Called(op) == [op |-> op, start |-> NoSq, end |-> NoSq, same |-> FALSE, listed |-> FALSE]

\* The fields of the object g.
Fields(g) ==
    [board |-> g.board, game_state |-> g.game_state, moveLog |-> g.moveLog,
     player_turn |-> g.player_turn, checkmate |-> g.checkmate]

\* The object after __init__.
NewGame ==
    [board |-> InitialBoard, game_state |-> "UNFINISHED", moveLog |-> <<>>,
     player_turn |-> "RED", checkmate |-> FALSE,
     call |-> Called("__init__"), ret |-> "None"]

\* (xcor, ycor) is the origin and destination of a move of the list.
Listed(moves, xcor, ycor) ==
    \E m \in moves : /\ m.startRow = xcor[1] /\ m.startCol = xcor[2]
                      /\ m.endRow = ycor[1] /\ m.endCol = ycor[2]

\* The object after make_move(xcor, ycor) has returned r, gv being what the call's
\* get_valid_moves() returned.  The arguments of an accepted move are recorded;
\* of a pass (xcor == ycor) and of a rejected call, only whether they are equal
\* and whether they are the origin and destination of a move of gv.
made(r, gv, xcor, ycor) ==
    [board |-> r.board, game_state |-> r.game_state, moveLog |-> r.moveLog,
     player_turn |-> r.player_turn, checkmate |-> r.checkmate,
     call |-> [op |-> "make_move",
               start |-> IF r.ret = "True" /\ xcor # ycor THEN xcor ELSE NoSq,
               end |-> IF r.ret = "True" /\ xcor # ycor THEN ycor ELSE NoSq,
               same |-> xcor = ycor,
               listed |-> Listed(gv.moves, xcor, ycor)],
     ret |-> r.ret]

make_move_call(gv, g, xcor, ycor) ==
    made(make_move_from(gv, g.game_state, g.moveLog, g.checkmate, xcor, ycor),
         gv, xcor, ycor)

undone(r, g) ==
    [g EXCEPT !.board = r.board, !.player_turn = r.player_turn,
              !.moveLog = r.moveLog,
              !.call = Called("undo_move"),
              !.ret = "None"]

undo_move_call(g) == undone(undo_move(g.board, g.player_turn, g.moveLog), g)

(* A game played on the object from its construction, as make_move calls: BLUE  *)
(* captures thirteen RED pieces while RED passes, RED's chariots capture every  *)
(* BLUE piece but the general and close in on it; a chariot gives check, the    *)
(* BLUE general steps aside, both go back, and the chariot mates on row 9.      *)
Script ==
    <<
       <<<<0, 0>>, <<0, 0>>>>, <<<<9, 0>>, <<8, 0>>>>, <<<<0, 0>>, <<0, 0>>>>,
       <<<<8, 0>>, <<8, 3>>>>, <<<<0, 0>>, <<0, 0>>>>, <<<<8, 3>>, <<0, 3>>>>,
       <<<<0, 0>>, <<0, 0>>>>, <<<<0, 3>>, <<0, 2>>>>, <<<<0, 0>>, <<0, 0>>>>,
       <<<<0, 2>>, <<0, 1>>>>, <<<<0, 0>>, <<0, 0>>>>, <<<<0, 1>>, <<0, 5>>>>,
       <<<<0, 0>>, <<0, 0>>>>, <<<<0, 5>>, <<0, 6>>>>, <<<<0, 0>>, <<0, 0>>>>,
       <<<<0, 6>>, <<0, 7>>>>, <<<<0, 0>>, <<0, 0>>>>, <<<<0, 7>>, <<2, 7>>>>,
       <<<<0, 0>>, <<0, 0>>>>, <<<<2, 7>>, <<2, 1>>>>, <<<<0, 0>>, <<0, 0>>>>,
       <<<<2, 1>>, <<2, 0>>>>, <<<<0, 0>>, <<0, 0>>>>, <<<<2, 0>>, <<3, 0>>>>,
       <<<<0, 0>>, <<0, 0>>>>, <<<<3, 0>>, <<3, 2>>>>, <<<<0, 0>>, <<0, 0>>>>,
       <<<<3, 2>>, <<3, 4>>>>, <<<<0, 0>>, <<0, 0>>>>, <<<<3, 4>>, <<3, 6>>>>,
       <<<<0, 0>>, <<0, 0>>>>, <<<<3, 6>>, <<3, 8>>>>, <<<<0, 0>>, <<0, 0>>>>,
       <<<<0, 0>>, <<0, 0>>>>, <<<<0, 0>>, <<6, 0>>>>, <<<<0, 0>>, <<0, 0>>>>,
       <<<<0, 8>>, <<3, 8>>>>, <<<<0, 0>>, <<0, 0>>>>, <<<<3, 8>>, <<6, 8>>>>,
       <<<<0, 0>>, <<0, 0>>>>, <<<<6, 0>>, <<6, 2>>>>, <<<<0, 0>>, <<0, 0>>>>,
       <<<<6, 2>>, <<6, 4>>>>, <<<<0, 0>>, <<0, 0>>>>, <<<<6, 4>>, <<6, 6>>>>,
       <<<<0, 0>>, <<0, 0>>>>, <<<<6, 6>>, <<9, 6>>>>, <<<<0, 0>>, <<0, 0>>>>,
       <<<<6, 8>>, <<9, 8>>>>, <<<<0, 0>>, <<0, 0>>>>, <<<<9, 6>>, <<9, 5>>>>,
       <<<<0, 0>>, <<0, 0>>>>, <<<<9, 5>>, <<9, 3>>>>, <<<<0, 0>>, <<0, 0>>>>,
       <<<<9, 3>>, <<9, 2>>>>, <<<<0, 0>>, <<0, 0>>>>, <<<<9, 2>>, <<9, 1>>>>,
       <<<<0, 0>>, <<0, 0>>>>, <<<<9, 1>>, <<7, 1>>>>, <<<<0, 0>>, <<0, 0>>>>,
       <<<<7, 1>>, <<7, 7>>>>, <<<<0, 0>>, <<0, 0>>>>, <<<<7, 7>>, <<9, 7>>>>,
       <<<<0, 0>>, <<0, 0>>>>, <<<<9, 7>>, <<5, 7>>>>, <<<<0, 0>>, <<0, 0>>>>,
       <<<<9, 8>>, <<6, 8>>>>, <<<<8, 4>>, <<9, 3>>>>, <<<<6, 8>>, <<8, 8>>>>,
       <<<<0, 0>>, <<0, 0>>>>, <<<<5, 7>>, <<5, 3>>>>, <<<<9, 3>>, <<9, 4>>>>,
       <<<<5, 3>>, <<5, 7>>>>, <<<<9, 4>>, <<9, 3>>>>, <<<<5, 7>>, <<9, 7>>>>
    >>

(* A second game, for the pieces the first one loses early: RED builds a      *)
(* screen for its cannons with a soldier and its general, brings one cannon to  *)
(* the corner (2, 3) of its palace and the other to the centre (1, 4), and      *)
(* walks a soldier to the corner (7, 3) of the BLUE palace, while BLUE moves    *)
(* elephants, horses, a soldier and a guard.                                    *)
PieceScript ==
    <<
       <<<<3, 0>>, <<3, 1>>>>, <<<<9, 7>>, <<7, 8>>>>, <<<<1, 4>>, <<2, 4>>>>,
       <<<<9, 1>>, <<6, 3>>>>, <<<<2, 7>>, <<2, 3>>>>, <<<<6, 3>>, <<9, 1>>>>,
       <<<<2, 4>>, <<2, 5>>>>, <<<<0, 0>>, <<0, 0>>>>, <<<<2, 1>>, <<4, 1>>>>,
       <<<<9, 1>>, <<6, 3>>>>, <<<<3, 2>>, <<4, 2>>>>, <<<<6, 3>>, <<9, 1>>>>,
       <<<<4, 1>>, <<4, 4>>>>, <<<<6, 4>>, <<6, 3>>>>, <<<<4, 4>>, <<1, 4>>>>,
       <<<<9, 6>>, <<6, 4>>>>, <<<<0, 5>>, <<1, 5>>>>, <<<<7, 8>>, <<9, 7>>>>,
       <<<<4, 2>>, <<5, 2>>>>, <<<<9, 7>>, <<8, 5>>>>, <<<<5, 2>>, <<6, 2>>>>,
       <<<<9, 5>>, <<9, 4>>>>, <<<<6, 2>>, <<7, 2>>>>, <<<<8, 5>>, <<9, 7>>>>,
       <<<<7, 2>>, <<7, 3>>>>, <<<<9, 7>>, <<7, 6>>>>
    >>

\* The game line names.
Line == IF line = "Script" THEN Script ELSE PieceScript

\* pos when the calls made so far are not a prefix of the game played.
Off == Len(Script) + 1

\* Calls made freely from a position of Script with few pieces, and from one
\* with many.
MaxOps == 2
MaxRichOps == 1

\* Positions of Script with many pieces on the board: the new object, and the
\* object after twenty calls (a BLUE chariot inside RED's camp).
RichStarts == {0, 20}

\* Positions of Script with few pieces: BLUE to move and in check (71 calls),
\* RED to move with a mate and a stalemating move at hand (74 calls), and the
\* game won by RED (all of Script).
ThinStarts == {71, 74, Len(Script)}

\* Free calls from a position of PieceScript.
MaxPieceOps == 1

\* Positions of PieceScript: a RED soldier screens the RED cannon of column 1
\* from the BLUE one (1 call), mid-game (10 calls), a RED cannon on (2, 3) with
\* the other on (1, 4) (18 calls), and the RED soldier on (7, 3) (all of it).
PieceStarts == {1, 10, 18, Len(PieceScript)}

\* The free calls that may still be made.
Budget ==
    IF pos = Off THEN opsLeft
    ELSE IF line = "PieceScript"
    THEN (IF pos \in PieceStarts THEN MaxPieceOps ELSE 0)
    ELSE IF pos \in RichStarts THEN MaxRichOps
    ELSE IF pos \in ThinStarts THEN MaxOps
    ELSE 0

Game ==
    [board |-> board, game_state |-> game_state, moveLog |-> moveLog,
     player_turn |-> player_turn, checkmate |-> checkmate, call |-> call, ret |-> ret]

Started ==
    /\ board = NewGame.board
    /\ game_state = NewGame.game_state
    /\ moveLog = NewGame.moveLog
    /\ player_turn = NewGame.player_turn
    /\ checkmate = NewGame.checkmate
    /\ call = NewGame.call
    /\ prev = Fields(NewGame)
    /\ ret = NewGame.ret
    /\ pos = 0
    /\ opsLeft = 0

Init == Started /\ line = "Script"

PieceInit == Started /\ line = "PieceScript"

Becomes(g) ==
    /\ board' = g.board
    /\ game_state' = g.game_state
    /\ moveLog' = g.moveLog
    /\ player_turn' = g.player_turn
    /\ checkmate' = g.checkmate
    /\ call' = g.call
    /\ prev' = Fields(Game)
    /\ line' = line
    /\ ret' = g.ret

Free ==
    /\ Budget > 0
    /\ opsLeft' = Budget - 1
    /\ pos' = Off

\* The next call of the game played.
PlayScript ==
    /\ pos # Off /\ pos < Len(Line)
    /\ \E gv \in {get_valid_moves(board, player_turn)} :
          \E g \in {make_move_call(gv, Game, Line[pos + 1][1], Line[pos + 1][2])} :
             Becomes(g)
    /\ pos' = pos + 1
    /\ UNCHANGED opsLeft

MakeMove ==
    /\ Free
    /\ \E gv \in {get_valid_moves(board, player_turn)} :
          \E xcor \in Squares, ycor \in Squares :
             \E g \in {make_move_call(gv, Game, xcor, ycor)} : Becomes(g)

UndoMove ==
    /\ Free
    /\ \E g \in {undo_move_call(Game)} : Becomes(g)

GetValidMoves ==
    /\ Free
    /\ \E r \in {get_valid_moves(board, player_turn)} :
          Becomes([Game EXCEPT !.board = r.board, !.player_turn = r.player_turn,
                               !.call = Called("get_valid_moves"),
                               !.ret = "list"])

InCheck ==
    /\ Free
    /\ \E r \in {in_check(board, player_turn)} :
          Becomes([Game EXCEPT !.player_turn = r.player_turn,
                               !.call = Called("in_check"),
                               !.ret = r.ret])

SquareUnderAttack ==
    /\ Free
    /\ \E sq \in Squares :
          \E r \in {square_under_attack(board, player_turn, sq[1], sq[2])} :
             Becomes([Game EXCEPT !.player_turn = r.player_turn,
                                  !.call = Called("square_under_attack"),
                                  !.ret = r.ret])

Next == PlayScript \/ MakeMove \/ UndoMove \/ GetValidMoves \/ InCheck \/ SquareUnderAttack

Spec == Init /\ [][Next]_vars

PieceSpec == PieceInit /\ [][Next]_vars

-----------------------------------------------------------------------------
(* The properties.  prev holds the fields the last call found, so a property  *)
(* of a call is a predicate of the state the call leaves.                     *)

Opponent(side) == IF side = "RED" THEN "BLUE" ELSE "RED"

\* The last call was a make_move(origin, dest) with origin # dest that returned
\* True.
Accepted == call.op = "make_move" /\ ~call.same /\ ret = "True"

\* The general of side stands on b, on the destination of a pseudo move of the
\* other side.
Attacked(b, side) ==
    \E s \in Squares :
        /\ b[s[1]][s[2]] = (IF side = "RED" THEN "RK" ELSE "BK")
        /\ \E m \in get_all_possible_moves(b, Opponent(side)) :
               m.endRow = s[1] /\ m.endCol = s[2]

\* side has no legal move on b.
NoLegalMove(b, side) == get_valid_moves(b, side).moves = {}

\* The won status that credits side.
Won(side) == IF side = "RED" THEN "RED_WON" ELSE "BLUE_WON"

\* C1: after a make_move(origin, dest), origin # dest, that returned True in an
\* UNFINISHED game, undo_move() restores the board, the side to move and the
\* length of the history the make_move found.
C1_RoundTrip ==
    (Accepted /\ prev.game_state = "UNFINISHED") =>
        \A u \in {undo_move(board, player_turn, moveLog)} :
            /\ u.board = prev.board
            /\ u.player_turn = prev.player_turn
            /\ Len(u.moveLog) = Len(prev.moveLog)

\* C2: a make_move(origin, dest), origin # dest, that returned True leaves the
\* opponent of the side that was to move as the side to move.
C2_FlipsOnce ==
    Accepted => player_turn = Opponent(prev.player_turn)

\* The fields a make_move that returns False must leave alone are as the call
\* found them.
Untouched ==
    /\ board = prev.board
    /\ player_turn = prev.player_turn
    /\ moveLog = prev.moveLog
    /\ game_state = prev.game_state

\* C3: in an UNFINISHED game make_move(origin, dest), origin # dest, returns True
\* exactly when (origin, dest) is the origin and destination of a move of
\* get_valid_moves() for the side to move, and a call that returns False leaves
\* the board, the side to move, the history and the status unchanged.
C3_AcceptsListed ==
    (call.op = "make_move" /\ ~call.same /\ prev.game_state = "UNFINISHED") =>
        /\ (ret = "True") <=> call.listed
        /\ call.listed <=> Listed(get_valid_moves(prev.board, prev.player_turn).moves,
                                  call.start, call.end)
        /\ ret = "False" => Untouched

\* C3's case: a pseudo move that leaves the mover's own general attacked has
\* been refused, and nothing has changed.
C3_Witness ==
    /\ call.op = "make_move" /\ ~call.same /\ ret = "False"
    /\ prev.game_state = "UNFINISHED"
    /\ Attacked(prev.board, prev.player_turn)
    /\ Untouched

\* C4: once the status is RED_WON or BLUE_WON every call leaves it as it is, and
\* every make_move, a pass included, returns False and leaves the board, the
\* side to move and the history unchanged.
C4_TerminalStays ==
    prev.game_state # "UNFINISHED" =>
        /\ game_state = prev.game_state
        /\ call.op = "make_move" => (ret = "False" /\ Untouched)

\* C4's case: the game is won, the last move has been undone, and a make_move
\* naming a legal move of the side to move has been refused.
C4_Witness ==
    /\ prev.game_state = "RED_WON"
    /\ call.op = "make_move" /\ call.listed /\ ret = "False"
    /\ ~Attacked(board, "BLUE")

\* C5: after an accepted move by side S, if the opponent has no legal move on
\* the resulting board and its general is attacked, the status is S's win; the
\* status is never the win of the opponent of the side that moved.
C5_MateCreditsMover ==
    (Accepted /\ prev.game_state = "UNFINISHED") =>
        /\ (NoLegalMove(board, Opponent(prev.player_turn))
               /\ Attacked(board, Opponent(prev.player_turn)))
             => game_state = Won(prev.player_turn)
        /\ game_state # Won(Opponent(prev.player_turn))

\* C5's case: RED has moved, BLUE has no legal move and its general is attacked.
C5_Witness ==
    /\ Accepted /\ prev.game_state = "UNFINISHED" /\ prev.player_turn = "RED"
    /\ NoLegalMove(board, "BLUE") /\ Attacked(board, "BLUE")
    /\ game_state = "RED_WON"

\* C6: after an accepted move, if the new side to move has no legal move and its
\* general is not attacked, the status is UNFINISHED and the checkmate flag
\* False; the status leaves UNFINISHED only if that side has no legal move and
\* its general is attacked.
C6_StalemateUnfinished ==
    (Accepted /\ prev.game_state = "UNFINISHED") =>
        /\ (NoLegalMove(board, Opponent(prev.player_turn))
               /\ ~Attacked(board, Opponent(prev.player_turn)))
             => (game_state = "UNFINISHED" /\ checkmate = FALSE)
        /\ game_state # "UNFINISHED"
             => (NoLegalMove(board, Opponent(prev.player_turn))
                   /\ Attacked(board, Opponent(prev.player_turn)))

\* C6's case: RED has moved, BLUE has a general that is not attacked and no
\* legal move.
C6_Witness ==
    /\ Accepted /\ prev.game_state = "UNFINISHED" /\ prev.player_turn = "RED"
    /\ \E s \in Squares : board[s[1]][s[2]] = "BK"
    /\ NoLegalMove(board, "BLUE") /\ ~Attacked(board, "BLUE")
    /\ game_state = "UNFINISHED"

\* The board after the move m is made on b.
Applied(b, m) ==
    [b EXCEPT ![m.startRow][m.startCol] = "--", ![m.endRow][m.endCol] = m.pieceMoved]

\* The moves m and p have the same origin and the same destination.
SameSquares(m, p) ==
    /\ m.startRow = p.startRow /\ m.startCol = p.startCol
    /\ m.endRow = p.endRow /\ m.endCol = p.endCol

\* The side to move has its general on the board.
HasGeneral == \E s \in Squares : board[s[1]][s[2]] = (IF player_turn = "RED" THEN "RK" ELSE "BK")

\* C7: when the side to move has its general on the board, every move of
\* get_valid_moves() has the origin and destination of a move of
\* get_all_possible_moves() and leaves the mover's general off every destination
\* of the opponent's pseudo moves, and every pseudo move that leaves the
\* general so is in get_valid_moves().
C7_LegalFilter ==
    HasGeneral =>
        \A valid \in {get_valid_moves(board, player_turn).moves} :
        \A pseudo \in {get_all_possible_moves(board, player_turn)} :
            /\ \A m \in valid :
                  /\ \E p \in pseudo : SameSquares(m, p)
                  /\ ~Attacked(Applied(board, m), player_turn)
            /\ \A p \in pseudo :
                  ~Attacked(Applied(board, p), player_turn)
                      => \E m \in valid : SameSquares(m, p)

\* C7's case: get_valid_moves() has been called on a board where some pseudo
\* move of the side to move exposes its general, and some does not.
C7_Witness ==
    /\ call.op = "get_valid_moves" /\ HasGeneral
    /\ \E p \in get_all_possible_moves(board, player_turn) :
           Attacked(Applied(board, p), player_turn)
    /\ get_valid_moves(board, player_turn).moves # {}

\* C8: get_valid_moves(), in_check() and square_under_attack(r, c) leave the
\* board, the side to move, the history and the status as they found them.
C8_QueriesPure ==
    call.op \in {"get_valid_moves", "in_check", "square_under_attack"} =>
        (Untouched /\ checkmate = prev.checkmate)

\* C8's case: in_check() has answered True and left the object as it was.
C8_Witness ==
    call.op = "in_check" /\ ret = "True" /\ Untouched

\* C9: the board holds exactly one RED general and exactly one BLUE general.
C9_OneGeneralEach ==
    /\ Cardinality({s \in Squares : board[s[1]][s[2]] = "RK"}) = 1
    /\ Cardinality({s \in Squares : board[s[1]][s[2]] = "BK"}) = 1

\* C10: in an UNFINISHED game make_move(c, c) returns True for every c, flips the
\* side to move once and leaves the board, the history and the status
\* unchanged.
C10_PassAccepted ==
    (call.op = "make_move" /\ call.same /\ prev.game_state = "UNFINISHED") =>
        /\ ret = "True"
        /\ player_turn = Opponent(prev.player_turn)
        /\ board = prev.board
        /\ moveLog = prev.moveLog
        /\ game_state = prev.game_state

\* C10's case: the side to move has passed while its general was attacked.
C10_Witness ==
    /\ call.op = "make_move" /\ call.same /\ ret = "True"
    /\ Attacked(prev.board, prev.player_turn)
    /\ player_turn = Opponent(prev.player_turn)

\* C11: undo_move() on a non-empty history removes the last entry, puts that
\* entry's moved piece back on its origin and its captured piece back on its
\* destination, leaves every other cell alone, and leaves to move the side of
\* the piece put back on the origin.
C11_UndoRestoresMover ==
    (call.op = "undo_move" /\ Len(prev.moveLog) > 0) =>
        \A move \in {prev.moveLog[Len(prev.moveLog)]} :
            /\ moveLog = SubSeq(prev.moveLog, 1, Len(prev.moveLog) - 1)
            /\ board = [prev.board EXCEPT ![move.startRow][move.startCol] = move.pieceMoved,
                                          ![move.endRow][move.endCol] = move.pieceCaptured]
            /\ Own(player_turn) = Colour(move.pieceMoved)

\* C12: undo_move() on an empty history leaves the board, the side to move, the
\* history and the status unchanged, and so does any undo_move() that follows.
C12_UndoEmptyNoOp ==
    /\ (call.op = "undo_move" /\ prev.moveLog = <<>>) => (Untouched /\ moveLog = <<>>)
    /\ moveLog = <<>> => Fields(undo_move_call(Game)) = Fields(Game)

\* C12's case: undo_move() has been called on the new object, whose history is
\* empty.
C12_Witness ==
    /\ call.op = "undo_move" /\ prev.moveLog = <<>>
    /\ moveLog = <<>> /\ board = InitialBoard /\ player_turn = "RED"

\* C13: a make_move(origin, dest), origin # dest, that returned True has emptied
\* the origin, put the piece that stood there on the destination, left the
\* other 88 cells alone, and appended to the history one entry with that
\* origin, destination, moved piece and former occupant of the destination.
C13_MoveWrites ==
    Accepted =>
        /\ board = [prev.board EXCEPT
                       ![call.start[1]][call.start[2]] = "--",
                       ![call.end[1]][call.end[2]] = prev.board[call.start[1]][call.start[2]]]
        /\ moveLog = Append(prev.moveLog,
                            [startRow |-> call.start[1], startCol |-> call.start[2],
                             endRow |-> call.end[1], endCol |-> call.end[2],
                             pieceMoved |-> prev.board[call.start[1]][call.start[2]],
                             pieceCaptured |-> prev.board[call.end[1]][call.end[2]]])

\* C13's case: make_move((3, 0), (4, 0)) on the new object.
C13_Witness ==
    /\ Accepted /\ call.start = <<3, 0>> /\ call.end = <<4, 0>>
    /\ prev.board = InitialBoard
    /\ board[3][0] = "--" /\ board[4][0] = "RP" /\ player_turn = "BLUE"
    /\ Len(moveLog) = Len(prev.moveLog) + 1

-----------------------------------------------------------------------------
(* The generators, on the boards the games reach.                           *)

Sides == {"RED", "BLUE"}

\* The squares of b that hold a piece of that side and kind.
Pieces(b, side, kind) ==
    {s \in Squares : Colour(b[s[1]][s[2]]) = Own(side) /\ Kind(b[s[1]][s[2]]) = kind}

Abs(x) == IF x < 0 THEN -x ELSE x

Sgn(x) == IF x > 0 THEN 1 ELSE IF x < 0 THEN -1 ELSE 0

\* The squares strictly between s and e on a rank, a file or a diagonal.
Between(s, e) ==
    LET n == IF Abs(e[1] - s[1]) > Abs(e[2] - s[2]) THEN Abs(e[1] - s[1]) ELSE Abs(e[2] - s[2])
    IN {<<s[1] + i * Sgn(e[1] - s[1]), s[2] + i * Sgn(e[2] - s[2])>> : i \in 1..(n - 1)}

\* The pieces of b strictly between s and e.
Screens(b, s, e) == {q \in Between(s, e) : b[q[1]][q[2]] # "--"}

\* The first piece of b met from s in direction d, "--" when there is none.
FirstPiece(b, s, d) ==
    LET met == {i \in 1..9 : /\ OnBoard(s[1] + i * d[1], s[2] + i * d[2])
                             /\ b[s[1] + i * d[1]][s[2] + i * d[2]] # "--"}
    IN IF met = {} THEN "--"
       ELSE LET i == CHOOSE k \in met : \A j \in met : k <= j
            IN b[s[1] + i * d[1]][s[2] + i * d[2]]

\* C14: on every board the games reach, and for either side, no move that
\* get_cannon_moves generates for a cannon of that side ends on a square that
\* holds a cannon.
C14_CannonSparesCannon ==
    \A side \in Sides : \A s \in Pieces(board, side, "C") :
        \A move \in get_cannon_moves(board, side, s[1], s[2]) :
            Kind(move.pieceCaptured) # "C"

\* C15: on every board the games reach, and for either side, every move that
\* get_cannon_moves generates has exactly one piece strictly between its origin
\* and its destination, that piece is not a cannon, and no move goes in a
\* direction in which the first piece met is a cannon or no piece is met.
C15_OneScreenNotCannon ==
    \A side \in Sides : \A s \in Pieces(board, side, "C") :
        \A move \in get_cannon_moves(board, side, s[1], s[2]) :
            \A e \in {<<move.endRow, move.endCol>>} :
                /\ Cardinality(Screens(board, s, e)) = 1
                /\ \A q \in Screens(board, s, e) : Kind(board[q[1]][q[2]]) # "C"
                /\ Kind(FirstPiece(board, s, <<Sgn(e[1] - s[1]), Sgn(e[2] - s[2])>>))
                        \notin {"-", "C"}

\* The palace of that side.
InOwnPalace(side, r, c) == IF side = "RED" THEN InRedPalace(r, c) ELSE InBluePalace(r, c)

\* The four corners and the centre of the palace of that side.
OwnPalacePoints(side) == IF side = "RED" THEN RedDiagonalPos ELSE BlueDiagonalPos

\* The moves the engine generates for the general or guard of that side on s.
PalaceMoves(b, side, s) ==
    IF Kind(b[s[1]][s[2]]) = "K" THEN get_general_moves(b, side, s[1], s[2])
    ELSE get_guards_moves(b, side, s[1], s[2])

\* C16: in every state the games reach by make_move and undo_move, every
\* general and every guard stands inside the palace of its side, every move
\* generated for it ends inside that palace, and every diagonal move generated
\* for it starts on a corner or on the centre of that palace.
C16_PalaceBound ==
    \A side \in Sides : \A s \in Pieces(board, side, "K") \cup Pieces(board, side, "G") :
        /\ InOwnPalace(side, s[1], s[2])
        /\ \A move \in PalaceMoves(board, side, s) :
              /\ InOwnPalace(side, move.endRow, move.endCol)
              /\ (move.endRow # s[1] /\ move.endCol # s[2]) => s \in OwnPalacePoints(side)

\* C16's case: the RED general has stepped along a palace diagonal, from the
\* corner (2, 5) to the centre (1, 4), with a guard of its side on (0, 3).
C16_Witness ==
    /\ Accepted /\ call.start = <<2, 5>> /\ call.end = <<1, 4>>
    /\ board[1][4] = "RK" /\ board[0][3] = "RG"

\* The eight jumps of a horse, and the square of the first step of a jump.
HorseJumps ==
    {<<2, 1>>, <<2, -1>>, <<-2, 1>>, <<-2, -1>>, <<1, 2>>, <<1, -2>>, <<-1, 2>>, <<-1, -2>>}

\* The eight jumps of an elephant.
ElephantJumps ==
    {<<3, 2>>, <<3, -2>>, <<-3, 2>>, <<-3, -2>>, <<2, 3>>, <<2, -3>>, <<-2, 3>>, <<-2, -3>>}

\* The orthogonal step a jump starts with: along its longer side.
FirstStep(j) == IF Abs(j[1]) > Abs(j[2]) THEN <<Sgn(j[1]), 0>> ELSE <<0, Sgn(j[2])>>

\* The squares a horse of that side on s may jump to.
HorseTargets(b, side, s) ==
    {<<s[1] + j[1], s[2] + j[2]>> : j \in
        {k \in HorseJumps :
            /\ OnBoard(s[1] + k[1], s[2] + k[2])
            /\ b[s[1] + FirstStep(k)[1]][s[2] + FirstStep(k)[2]] = "--"
            /\ Colour(b[s[1] + k[1]][s[2] + k[2]]) # Own(side)}}

\* C17: on every board the games reach, and for either side, the moves that
\* get_horse_moves generates for a horse on (r, c) are exactly those to the
\* squares (r+-2, c+-1) and (r+-1, c+-2) that are on the board, whose first
\* orthogonal step is empty, and that hold no piece of the horse's side.
C17_HorseJumps ==
    \A side \in Sides : \A s \in Pieces(board, side, "H") :
        get_horse_moves(board, side, s[1], s[2])
            = {Move(s, t, board) : t \in HorseTargets(board, side, s)}

\* C17's case: the BLUE horse of (9, 7), whose steps to the left and to the
\* right are taken by pieces of its side, has jumped over the empty (8, 7).
C17_Witness ==
    /\ Accepted /\ call.start = <<9, 7>> /\ call.end = <<7, 8>>
    /\ prev.board[9][7] = "BH" /\ prev.board[9][6] = "BE" /\ prev.board[9][8] = "BR"
    /\ HorseTargets(prev.board, "BLUE", <<9, 7>>) = {<<7, 6>>, <<7, 8>>}
    /\ board[7][8] = "BH"

\* The squares an elephant of that side on s may jump to.
ElephantTargets(b, side, s) ==
    {<<s[1] + j[1], s[2] + j[2]>> : j \in
        {k \in ElephantJumps :
            /\ OnBoard(s[1] + k[1], s[2] + k[2])
            /\ b[s[1] + FirstStep(k)[1]][s[2] + FirstStep(k)[2]] = "--"
            /\ b[s[1] + FirstStep(k)[1] + Sgn(k[1])][s[2] + FirstStep(k)[2] + Sgn(k[2])] = "--"
            /\ Colour(b[s[1] + k[1]][s[2] + k[2]]) # Own(side)}}

\* C18: on every board the games reach, and for either side, the moves that
\* get_elephant_moves generates for an elephant on (r, c) are exactly those to
\* the squares (r+-3, c+-2) and (r+-2, c+-3) that are on the board, whose first
\* orthogonal step and whose diagonal step after it are both empty, and that
\* hold no piece of the elephant's side.
C18_ElephantJumps ==
    \A side \in Sides : \A s \in Pieces(board, side, "E") :
        get_elephant_moves(board, side, s[1], s[2])
            = {Move(s, t, board) : t \in ElephantTargets(board, side, s)}

\* C18's case: the BLUE elephant of (9, 6) has jumped to (6, 4) over the empty
\* (8, 6) and (7, 5), while its other jump over (8, 6) was shut by the BLUE
\* cannon on (7, 7).
C18_Witness ==
    /\ Accepted /\ call.start = <<9, 6>> /\ call.end = <<6, 4>>
    /\ prev.board[9][6] = "BE" /\ prev.board[8][6] = "--"
    /\ prev.board[7][5] = "--" /\ prev.board[7][7] = "BC"
    /\ <<6, 8>> \notin ElephantTargets(prev.board, "BLUE", <<9, 6>>)
    /\ board[6][4] = "BE"

\* The palace of the opponent of that side, and its corners and centre.
FoePalacePoints(side) == IF side = "RED" THEN BlueDiagonalPos ELSE RedDiagonalPos

\* The row in front of a soldier of that side on row r.
Forward(side, r) == IF side = "RED" THEN r + 1 ELSE r - 1

\* C19: on every board the games reach, and for either side, a soldier on a
\* corner or the centre of the opponent's palace has among the moves of
\* get_pawn_moves each one-step diagonal move forward to a corner or the centre
\* of that palace that is empty or holds an enemy piece.
C19_SoldierPalaceDiagonal ==
    \A side \in Sides : \A s \in Pieces(board, side, "P") \cap FoePalacePoints(side) :
        \A t \in {<<Forward(side, s[1]), s[2] - 1>>, <<Forward(side, s[1]), s[2] + 1>>}
                  \cap FoePalacePoints(side) :
            EmptyOrFoe(board[t[1]][t[2]], side) =>
                Move(s, t, board) \in get_pawn_moves(board, side, s[1], s[2])

\* C20: on every board the games reach, and for either side, every move that
\* get_pawn_moves generates for a soldier is one step long, does not go toward
\* the soldier's own back rank, ends on the board, and does not end on a piece
\* of the soldier's side.
C20_SoldierNeverBack ==
    \A side \in Sides : \A s \in Pieces(board, side, "P") :
        \A move \in get_pawn_moves(board, side, s[1], s[2]) :
            /\ move.startRow = s[1] /\ move.startCol = s[2]
            /\ IF side = "RED" THEN move.endRow >= s[1] ELSE move.endRow <= s[1]
            /\ Abs(move.endRow - s[1]) <= 1 /\ Abs(move.endCol - s[2]) <= 1
            /\ <<move.endRow, move.endCol>> # s
            /\ OnBoard(move.endRow, move.endCol)
            /\ Colour(board[move.endRow][move.endCol]) # Own(side)

\* C20's case: the RED soldier of (5, 2) has taken the BLUE soldier in front of
\* it, with the board's edge two columns to its left and the row behind it
\* empty.
C20_Witness ==
    /\ Accepted /\ call.start = <<5, 2>> /\ call.end = <<6, 2>>
    /\ prev.board[5][2] = "RP" /\ prev.board[6][2] = "BP" /\ prev.board[4][2] = "--"
    /\ board[6][2] = "RP" /\ board[5][2] = "--"

\* The four corners of each palace.
PalaceCorners ==
    {<<0, 3>>, <<0, 5>>, <<2, 3>>, <<2, 5>>, <<7, 3>>, <<7, 5>>, <<9, 3>>, <<9, 5>>}

\* The centre of the palace that has the corner s, and the corner opposite s.
CentreOf(s) == <<IF s[1] <= 2 THEN 1 ELSE 8, 4>>

OppositeCorner(s) == <<2 * CentreOf(s)[1] - s[1], 2 * CentreOf(s)[2] - s[2]>>

\* The squares of the rank and file of s that a chariot of that side on s
\* reaches: nothing stands between, and no piece of its side stands on them.
RookReach(b, side, s) ==
    {t \in Squares : /\ t # s /\ (t[1] = s[1] \/ t[2] = s[2])
                     /\ Screens(b, s, t) = {}
                     /\ Colour(b[t[1]][t[2]]) # Own(side)}

\* The squares the moves of get_rook_moves for the chariot on s end on.
RookEnds(b, side, s) ==
    {<<move.endRow, move.endCol>> : move \in get_rook_moves(b, side, s[1], s[2])}

\* C21: on every board the games reach, and for either side, the moves that
\* get_rook_moves generates for a chariot end, on its rank and file, exactly on
\* the squares up to and including the first enemy piece and before the first
\* piece of its side; for a chariot on a palace corner they include the palace
\* centre when it is empty or holds an enemy piece, and the opposite corner when
\* the centre is empty and that corner is empty or holds an enemy piece.
C21_ChariotSlides ==
    \A side \in Sides : \A s \in Pieces(board, side, "R") :
        \A ends \in {RookEnds(board, side, s)} :
            /\ {t \in ends : t[1] = s[1] \/ t[2] = s[2]} = RookReach(board, side, s)
            /\ s \in PalaceCorners =>
                  \A m \in {CentreOf(s)} : \A o \in {OppositeCorner(s)} :
                      /\ EmptyOrFoe(board[m[1]][m[2]], side) => m \in ends
                      /\ (board[m[1]][m[2]] = "--" /\ EmptyOrFoe(board[o[1]][o[2]], side))
                            => o \in ends

\* C22: in every state the games reach by make_move and undo_move, a status of
\* RED_WON or BLUE_WON stands on a board on which the general of the losing
\* side is attacked and the losing side has no legal move.
C22_WonMeansMate ==
    \A side \in Sides :
        game_state = Won(side) =>
            /\ Attacked(board, Opponent(side))
            /\ NoLegalMove(board, Opponent(side))

\* The piece on s after the first n entries of log are applied, in order, to
\* the initial board: the last of them that names s has emptied it or put its
\* moved piece there.
CellAfter(log, n, s) ==
    LET named == {i \in 1..n : \/ (log[i].startRow = s[1] /\ log[i].startCol = s[2])
                               \/ (log[i].endRow = s[1] /\ log[i].endCol = s[2])}
    IN IF named = {} THEN InitialBoard[s[1]][s[2]]
       ELSE LET i == CHOOSE k \in named : \A j \in named : j <= k
            IN IF log[i].endRow = s[1] /\ log[i].endCol = s[2]
               THEN log[i].pieceMoved ELSE "--"

\* C23: in every state the games reach by make_move, passes included, and
\* undo_move, the board is the initial board with the entries of the history
\* applied in order, every entry records as moved and captured piece what
\* stood on its origin and destination when it was applied, and the last call
\* has left the history alone, appended the entry of the move it accepted, or,
\* being undo_move, removed the last entry.
C23_BoardIsHistory ==
    /\ \A s \in Squares : board[s[1]][s[2]] = CellAfter(moveLog, Len(moveLog), s)
    /\ \A i \in 1..Len(moveLog) :
          /\ moveLog[i].pieceMoved
                = CellAfter(moveLog, i - 1, <<moveLog[i].startRow, moveLog[i].startCol>>)
          /\ moveLog[i].pieceCaptured
                = CellAfter(moveLog, i - 1, <<moveLog[i].endRow, moveLog[i].endCol>>)
    /\ \/ moveLog = prev.moveLog /\ ~Accepted
          /\ (call.op = "undo_move" => prev.moveLog = <<>>)
       \/ /\ Accepted
          /\ Len(moveLog) = Len(prev.moveLog) + 1
          /\ SubSeq(moveLog, 1, Len(prev.moveLog)) = prev.moveLog
          /\ call.start = <<moveLog[Len(moveLog)].startRow, moveLog[Len(moveLog)].startCol>>
          /\ call.end = <<moveLog[Len(moveLog)].endRow, moveLog[Len(moveLog)].endCol>>
       \/ /\ call.op = "undo_move" /\ prev.moveLog # <<>>
          /\ moveLog = SubSeq(prev.moveLog, 1, Len(prev.moveLog) - 1)

\* C23's case: undo_move() has taken back the last entry of a history that
\* holds captures, after the mover of that entry was given the move again by a
\* pass.
C23_Witness ==
    /\ call.op = "undo_move" /\ prev.game_state = "UNFINISHED"
    /\ Len(prev.moveLog) > 1
    /\ \E i \in 1..Len(moveLog) : moveLog[i].pieceCaptured # "--"
    /\ Own(prev.player_turn) = Colour(prev.moveLog[Len(prev.moveLog)].pieceMoved)
    /\ Len(moveLog) = Len(prev.moveLog) - 1
    /\ board # prev.board

\* The number of pieces of that colour letter on b.
Count(b, colour) == Cardinality({s \in Squares : Colour(b[s[1]][s[2]]) = colour})

\* C24: on every board the games reach, and for either side, every move of
\* get_all_possible_moves starts on a piece of that side and ends on another
\* square of the 10x9 grid that is empty or holds an enemy piece; and every
\* accepted move has left the number of the mover's pieces as it was and has
\* lowered the number of the opponent's pieces by at most one.
C24_NoOwnCapture ==
    /\ \A side \in Sides : \A move \in get_all_possible_moves(board, side) :
          /\ OnBoard(move.startRow, move.startCol)
          /\ Colour(board[move.startRow][move.startCol]) = Own(side)
          /\ move.pieceMoved = board[move.startRow][move.startCol]
          /\ OnBoard(move.endRow, move.endCol)
          /\ <<move.endRow, move.endCol>> # <<move.startRow, move.startCol>>
          /\ EmptyOrFoe(board[move.endRow][move.endCol], side)
    /\ Accepted =>
          \A own \in {Colour(prev.board[call.start[1]][call.start[2]])} :
              /\ own = Own(prev.player_turn)
              /\ Colour(prev.board[call.end[1]][call.end[2]]) # own
              /\ Count(board, own) = Count(prev.board, own)
              /\ Count(board, Foe(prev.player_turn))
                    >= Count(prev.board, Foe(prev.player_turn)) - 1

\* C24's case: an accepted move has taken an enemy piece, while a piece of the
\* mover's side stood next to the origin of the move.
C24_Witness ==
    /\ Accepted
    /\ Colour(prev.board[call.end[1]][call.end[2]]) = Foe(prev.player_turn)
    /\ Count(board, Foe(prev.player_turn)) = Count(prev.board, Foe(prev.player_turn)) - 1
    /\ Count(board, Own(prev.player_turn)) = Count(prev.board, Own(prev.player_turn))
    /\ \E d \in {<<1, 0>>, <<-1, 0>>, <<0, 1>>, <<0, -1>>} :
          /\ OnBoard(call.start[1] + d[1], call.start[2] + d[2])
          /\ Colour(prev.board[call.start[1] + d[1]][call.start[2] + d[2]])
                = Own(prev.player_turn)

====
